---- MODULE Spec2Model ----
(***************************************************************************)
(* A model of the zip trailer codecs (src/src/spec.rs) and of the          *)
(* checksum-validating reader (src/src/crc32.rs).                          *)
(*                                                                         *)
(* Byte streams are sequences of byte values.  A stream position is the    *)
(* 0-based offset the Rust code uses; the byte at offset p is s[p + 1].    *)
(* TLC's integers are 32 bits wide, so a u16 and a u32 are held as         *)
(* numbers (every stream of the model keeps the top byte of a u32 below    *)
(* 128), a u64 as its two little-endian 32-bit halves, and a CRC32 value   *)
(* as its 32 bits, least significant first.                                *)
(***************************************************************************)
EXTENDS Integers, Sequences, FiniteSets, TLC

VARIABLES
    \* ---- Crc32Reader (crc32.rs), blocking and suspension-capable ----
    data,          \* the bytes behind both inner sources
    check,         \* Crc32Reader.check, fixed by new()
    reqs,          \* the read requests issued so far (buffer size, inner outcome)
    inner_pos,     \* blocking reader: bytes its inner source has handed out
    hasher,        \* blocking reader: Crc32Reader.hasher
    results,       \* blocking reader: what each read() returned
    a_inner_pos,   \* poll_read reader: bytes its inner source has handed out
    a_hasher,      \* poll_read reader: Crc32Reader.hasher
    a_results,     \* poll_read reader: what each resolved poll_read returned
    a_pending,     \* poll_read reader: Pending polls of the request in flight
    \* ---- CentralDirectoryEnd::find_and_parse / find_and_parse_async ----
    stream,        \* the bytes of the seekable reader
    pc,            \* blocking scan: "start", "scan" or "done"
    pos,           \* blocking scan: the local `pos`
    cursor,        \* blocking scan: the reader's seek position
    result,        \* blocking scan: the value returned
    a_pc,          \* async scan: "start", "scan" or "done"
    a_pos,         \* async scan: the local `pos`
    a_cursor,      \* async scan: the reader's seek position
    a_result,      \* async scan: the value returned
    \* ---- CentralDirectoryEnd::write then ::parse ----
    cde,           \* the record handed to write
    writer,        \* the bytes write has produced
    w_pc,          \* "new", "written" or "parsed"
    parsed,        \* what parse returned on the written bytes
    \* ---- Zip64CentralDirectoryEnd::find_and_parse ----
    z_stream,      \* the bytes of the seekable reader
    z_rec,         \* the record the stream was built around and where it starts
    nominal_offset,
    search_upper_bound,
    z_pc,          \* "scan" or "done"
    z_pos,         \* the local `pos`
    z_result       \* the value returned

crcVars   == <<data, check, reqs, inner_pos, hasher, results,
               a_inner_pos, a_hasher, a_results, a_pending>>
eocdVars  == <<stream, pc, pos, cursor, result, a_pc, a_pos, a_cursor, a_result>>
rtVars    == <<cde, writer, w_pc, parsed>>
zip64Vars == <<z_stream, z_rec, nominal_offset, search_upper_bound, z_pc, z_pos, z_result>>
vars      == <<crcVars, eocdVars, rtVars, zip64Vars>>

Min(a, b) == IF a <= b THEN a ELSE b

Last(s) == s[Len(s)]

Zeros(n) == [i \in 1..n |-> 0]

(***************************************************************************)
(* Little-endian integers (byteorder's LittleEndian).                      *)
(***************************************************************************)
LE16(v) == <<v % 256, (v \div 256) % 256>>

LE32(v) == <<v % 256, (v \div 256) % 256, (v \div 65536) % 256, (v \div 16777216) % 256>>

\* A u64 is [lo |-> low 32 bits, hi |-> high 32 bits].
LE64(v) == LE32(v.lo) \o LE32(v.hi)

\* Reads are total on their arguments; the callers check that the bytes are there.
U16At(s, c) == s[c + 1] + 256 * s[c + 2]

U32At(s, c) == s[c + 1] + 256 * (s[c + 2] + 256 * (s[c + 3] + 256 * s[c + 4]))

U64At(s, c) == [lo |-> U32At(s, c), hi |-> U32At(s, c + 4)]

\* Whether n bytes can be read at seek position c (read_exact succeeds).
CanRead(s, c, n) == c + n <= Len(s)

(***************************************************************************)
(* crc32fast::Hasher: CRC-32 (reflected polynomial 0xEDB88320), the state  *)
(* being the finalized checksum of the bytes seen so far.                  *)
(***************************************************************************)
Bit(v, i) == (v \div (2 ^ i)) % 2

\* The 32 bits of the u32 whose 16-bit halves are hi and lo.
U32Bits(hi, lo) == [i \in 1..32 |-> IF i <= 16 THEN Bit(lo, i - 1) ELSE Bit(hi, i - 17)]

Xor32(a, b) == [i \in 1..32 |-> (a[i] + b[i]) % 2]

Not32(a) == [i \in 1..32 |-> 1 - a[i]]

Shr1(a) == [i \in 1..32 |-> IF i < 32 THEN a[i + 1] ELSE 0]

CRC_POLY == U32Bits(60856, 33568)   \* 0xEDB8_8320

RECURSIVE CrcShift(_, _)
CrcShift(c, k) ==
    IF k = 0 THEN c
    ELSE CrcShift(IF c[1] = 1 THEN Xor32(Shr1(c), CRC_POLY) ELSE Shr1(c), k - 1)

CrcByte(c, b) == CrcShift(Xor32(c, U32Bits(0, b)), 8)

RECURSIVE CrcBytes(_, _)
CrcBytes(c, bytes) ==
    IF bytes = <<>> THEN c ELSE CrcBytes(CrcByte(c, Head(bytes)), Tail(bytes))

HasherNew == U32Bits(0, 0)

HasherUpdate(state, bytes) == Not32(CrcBytes(Not32(state), bytes))

HasherFinalize(state) == state

(***************************************************************************)
(* Crc32Reader                                                             *)
(***************************************************************************)
\* The inner source: a cursor over `data`.  A request carries the buffer size n,
\* the most bytes the inner source hands out in that call (lim, a short read when
\* below n) and whether the call fails with an I/O error.
InnerRead(d, p, req) ==
    IF req.err THEN [kind |-> "Err", n |-> 0]
    ELSE [kind |-> "Ok", n |-> Min(Min(req.n, req.lim), Len(d) - p)]

check_matches(chk, h) == chk = HasherFinalize(h)

\* Faulty variants of read(): the accumulator is never updated; the empty-buffer
\* guard is missing; the accumulator is reset once end-of-stream has been confirmed.
Crc32Reader_read_no_update(d, chk, p, h, req) ==
    LET in == InnerRead(d, p, req) IN
    IF in.kind = "Ok" /\ in.n = 0 /\ req.n # 0 /\ ~check_matches(chk, h)
    THEN [ret |-> "InvalidChecksum", n |-> 0, pos |-> p, hasher |-> h, inner |-> in]
    ELSE IF in.kind = "Ok"
    THEN [ret |-> "Ok", n |-> in.n, pos |-> p + in.n, hasher |-> h, inner |-> in]
    ELSE [ret |-> "IoError", n |-> 0, pos |-> p, hasher |-> h, inner |-> in]

Crc32Reader_read_no_empty_guard(d, chk, p, h, req) ==
    LET in == InnerRead(d, p, req) IN
    IF in.kind = "Ok" /\ in.n = 0 /\ ~check_matches(chk, h)
    THEN [ret |-> "InvalidChecksum", n |-> 0, pos |-> p, hasher |-> h, inner |-> in]
    ELSE IF in.kind = "Ok"
    THEN [ret |-> "Ok", n |-> in.n, pos |-> p + in.n,
          hasher |-> HasherUpdate(h, SubSeq(d, p + 1, p + in.n)), inner |-> in]
    ELSE [ret |-> "IoError", n |-> 0, pos |-> p, hasher |-> h, inner |-> in]

Crc32Reader_read_reset_at_eof(d, chk, p, h, req) ==
    LET in == InnerRead(d, p, req) IN
    IF in.kind = "Ok" /\ in.n = 0 /\ req.n # 0 /\ ~check_matches(chk, h)
    THEN [ret |-> "InvalidChecksum", n |-> 0, pos |-> p, hasher |-> h, inner |-> in]
    ELSE IF in.kind = "Ok"
    THEN [ret |-> "Ok", n |-> in.n, pos |-> p + in.n,
          hasher |-> IF in.n = 0 /\ req.n # 0 THEN HasherNew
                     ELSE HasherUpdate(h, SubSeq(d, p + 1, p + in.n)),
          inner |-> in]
    ELSE [ret |-> "IoError", n |-> 0, pos |-> p, hasher |-> h, inner |-> in]

\* read(): the value returned (ret, n), the reader afterwards (pos, hasher) and,
\* for the record, what the inner source answered.
Crc32Reader_read(d, chk, p, h, req) ==
    LET in == InnerRead(d, p, req) IN
    IF in.kind = "Ok" /\ in.n = 0 /\ req.n # 0 /\ ~check_matches(chk, h)
    THEN [ret |-> "InvalidChecksum", n |-> 0, pos |-> p, hasher |-> h, inner |-> in]
    ELSE IF in.kind = "Ok"
    THEN [ret |-> "Ok", n |-> in.n, pos |-> p + in.n,
          hasher |-> HasherUpdate(h, SubSeq(d, p + 1, p + in.n)), inner |-> in]
    ELSE [ret |-> "IoError", n |-> 0, pos |-> p, hasher |-> h, inner |-> in]

\* Faulty variant of poll_read(): the accumulator is also updated when the inner
\* source is Pending, with the buffer as it stands.
Crc32Reader_poll_read_speculative(d, chk, p, h, req, ready) ==
    IF ~ready
    THEN [ret |-> "Pending", n |-> 0, pos |-> p, hasher |-> HasherUpdate(h, Zeros(req.n)),
          inner |-> [kind |-> "Pending", n |-> 0]]
    ELSE LET in == InnerRead(d, p, req) IN
         IF in.kind = "Ok" /\ in.n = 0 /\ req.n # 0 /\ ~(chk = HasherFinalize(h))
         THEN [ret |-> "InvalidChecksum", n |-> 0, pos |-> p, hasher |-> h, inner |-> in]
         ELSE IF in.kind = "Ok"
         THEN [ret |-> "Ok", n |-> in.n, pos |-> p + in.n,
               hasher |-> HasherUpdate(h, SubSeq(d, p + 1, p + in.n)), inner |-> in]
         ELSE [ret |-> "IoError", n |-> 0, pos |-> p, hasher |-> h, inner |-> in]

\* poll_read(): Poll::map runs the closure only on Ready; Pending passes through.
Crc32Reader_poll_read(d, chk, p, h, req, ready) ==
    IF ~ready
    THEN [ret |-> "Pending", n |-> 0, pos |-> p, hasher |-> h,
          inner |-> [kind |-> "Pending", n |-> 0]]
    ELSE LET in == InnerRead(d, p, req) IN
         IF in.kind = "Ok" /\ in.n = 0 /\ req.n # 0 /\ ~(chk = HasherFinalize(h))
         THEN [ret |-> "InvalidChecksum", n |-> 0, pos |-> p, hasher |-> h, inner |-> in]
         ELSE IF in.kind = "Ok"
         THEN [ret |-> "Ok", n |-> in.n, pos |-> p + in.n,
               hasher |-> HasherUpdate(h, SubSeq(d, p + 1, p + in.n)), inner |-> in]
         ELSE [ret |-> "IoError", n |-> 0, pos |-> p, hasher |-> h, inner |-> in]

(***************************************************************************)
(* The readers' specification: one blocking reader and one polled reader   *)
(* over the same bytes, given the same requests.                           *)
(***************************************************************************)
MaxReads == 3      \* read calls per reader

MaxBuf == 5        \* the largest buffer handed to read

MaxPending == 2    \* Pending polls the inner source may answer per request

Str1234 == <<49, 50, 51, 52>>    \* b"1234"

Crc1234 == U32Bits(39907, 57507)   \* 0x9be3_e0a3

Crc32Of(bytes) == HasherFinalize(HasherUpdate(HasherNew, bytes))

\* The inputs of the crate's tests: b"" against 0 and 1, b"1234" against 0x9be3e0a3.
DataSet == {<<>>, Str1234}

CheckSet == {U32Bits(0, 0), U32Bits(0, 1), Crc1234}

Requests ==
    {[n |-> n, lim |-> n, err |-> e] : n \in {0, 1, MaxBuf}, e \in BOOLEAN}
        \cup {[n |-> MaxBuf, lim |-> 2, err |-> FALSE]}

\* What a caller sees of one call, and the reader it leaves behind.
Outcome(r) ==
    [ret |-> r.ret, n |-> r.n, pos |-> r.pos, crc |-> HasherFinalize(r.hasher),
     inner |-> r.inner]

CrcIdle ==
    /\ data = <<>> /\ check = <<>> /\ reqs = <<>>
    /\ inner_pos = 0 /\ hasher = <<>> /\ results = <<>>
    /\ a_inner_pos = 0 /\ a_hasher = <<>> /\ a_results = <<>> /\ a_pending = 0

\* Crc32Reader::new on both readers.
CrcInit ==
    /\ data \in DataSet
    /\ check \in CheckSet
    /\ reqs = <<>>
    /\ inner_pos = 0 /\ hasher = HasherNew /\ results = <<>>
    /\ a_inner_pos = 0 /\ a_hasher = HasherNew /\ a_results = <<>> /\ a_pending = 0

\* One blocking read; the polled reader is given the same request next.
Read ==
    /\ Len(results) < MaxReads
    /\ Len(a_results) = Len(results)
    /\ \E req \in Requests :
          LET r == Crc32Reader_read(data, check, inner_pos, hasher, req) IN
          /\ reqs' = Append(reqs, req)
          /\ inner_pos' = r.pos
          /\ hasher' = r.hasher
          /\ results' = Append(results, Outcome(r))
    /\ UNCHANGED <<data, check, a_inner_pos, a_hasher, a_results, a_pending>>
    /\ UNCHANGED <<eocdVars, rtVars, zip64Vars>>

\* A poll in which the inner source is not ready.
PollPending ==
    /\ Len(a_results) < Len(reqs)
    /\ a_pending < MaxPending
    /\ LET r == Crc32Reader_poll_read(data, check, a_inner_pos, a_hasher,
                                      reqs[Len(a_results) + 1], FALSE) IN
          /\ r.ret = "Pending"
          /\ a_inner_pos' = r.pos
          /\ a_hasher' = r.hasher
    /\ a_pending' = a_pending + 1
    /\ UNCHANGED <<data, check, reqs, inner_pos, hasher, results, a_results>>
    /\ UNCHANGED <<eocdVars, rtVars, zip64Vars>>

\* The poll in which the inner read resolves.
PollReady ==
    /\ Len(a_results) < Len(reqs)
    /\ LET r == Crc32Reader_poll_read(data, check, a_inner_pos, a_hasher,
                                      reqs[Len(a_results) + 1], TRUE) IN
          /\ a_inner_pos' = r.pos
          /\ a_hasher' = r.hasher
          /\ a_results' = Append(a_results, Outcome(r))
    /\ a_pending' = 0
    /\ UNCHANGED <<data, check, reqs, inner_pos, hasher, results>>
    /\ UNCHANGED <<eocdVars, rtVars, zip64Vars>>

(***************************************************************************)
(* CentralDirectoryEnd                                                     *)
(***************************************************************************)
CENTRAL_DIRECTORY_END_SIGNATURE == 101010256          \* 0x06054b50

ZIP64_CENTRAL_DIRECTORY_END_SIGNATURE == 101075792    \* 0x06064b50

HEADER_SIZE == 22

BYTES_BETWEEN_MAGIC_AND_COMMENT_SIZE == HEADER_SIZE - 6

U16_MAX == 65535

U16_MODULUS == 65536     \* `as u16` keeps the low 16 bits

SaturatingSub(a, b) == IF a >= b THEN a - b ELSE 0

NoCde == [disk_number |-> 0, disk_with_central_directory |-> 0,
          number_of_files_on_this_disk |-> 0, number_of_files |-> 0,
          central_directory_size |-> 0, central_directory_offset |-> 0,
          zip_file_comment |-> <<>>]

\* The values a call returns.  start is cde_start_pos (-1 when there is none).
Ok(c, at)           == [kind |-> "Ok", msg |-> "", cde |-> c, start |-> at]
InvalidArchive(m)   == [kind |-> "InvalidArchive", msg |-> m, cde |-> NoCde, start |-> -1]
IoError             == [kind |-> "Io", msg |-> "UnexpectedEof", cde |-> NoCde, start |-> -1]
Panic               == [kind |-> "Panic", msg |-> "fff", cde |-> NoCde, start |-> -1]
NoResult            == [kind |-> "None", msg |-> "", cde |-> NoCde, start |-> -1]

\* parse, the reader at seek position c; start is filled in by the caller.
CentralDirectoryEnd_parse(s, c) ==
    IF ~CanRead(s, c, 4) THEN IoError
    ELSE IF U32At(s, c) # CENTRAL_DIRECTORY_END_SIGNATURE
    THEN InvalidArchive("Invalid digital signature header")
    ELSE IF ~CanRead(s, c, HEADER_SIZE) THEN IoError
    ELSE LET zip_file_comment_length == U16At(s, c + 20) IN
         IF ~CanRead(s, c + HEADER_SIZE, zip_file_comment_length) THEN IoError
         ELSE Ok([disk_number                  |-> U16At(s, c + 4),
                  disk_with_central_directory  |-> U16At(s, c + 6),
                  number_of_files_on_this_disk |-> U16At(s, c + 8),
                  number_of_files              |-> U16At(s, c + 10),
                  central_directory_size       |-> U32At(s, c + 12),
                  central_directory_offset     |-> U32At(s, c + 16),
                  zip_file_comment |->
                      SubSeq(s, c + HEADER_SIZE + 1,
                             c + HEADER_SIZE + zip_file_comment_length)],
                 -1)

\* The seek position parse leaves the reader at.
ParseEnd(s, c) ==
    LET r == CentralDirectoryEnd_parse(s, c) IN
    IF r.kind = "Ok" THEN c + HEADER_SIZE + Len(r.cde.zip_file_comment)
    ELSE IF r.kind = "InvalidArchive" THEN c + 4
    ELSE Len(s)

\* parse_async reads the same fields in the same order.
CentralDirectoryEnd_parse_async(s, c) == CentralDirectoryEnd_parse(s, c)

\* Faulty variant of write: the two entry counts are emitted in the other order.
CentralDirectoryEnd_write_swapped(c) ==
    LE32(CENTRAL_DIRECTORY_END_SIGNATURE)
        \o LE16(c.disk_number)
        \o LE16(c.disk_with_central_directory)
        \o LE16(c.number_of_files)
        \o LE16(c.number_of_files_on_this_disk)
        \o LE32(c.central_directory_size)
        \o LE32(c.central_directory_offset)
        \o LE16(Len(c.zip_file_comment) % U16_MODULUS)
        \o c.zip_file_comment

CentralDirectoryEnd_write(c) ==
    LE32(CENTRAL_DIRECTORY_END_SIGNATURE)
        \o LE16(c.disk_number)
        \o LE16(c.disk_with_central_directory)
        \o LE16(c.number_of_files_on_this_disk)
        \o LE16(c.number_of_files)
        \o LE32(c.central_directory_size)
        \o LE32(c.central_directory_offset)
        \o LE16(Len(c.zip_file_comment) % U16_MODULUS)
        \o c.zip_file_comment

FileLength(s) == Len(s)

SearchUpperBound(s) == SaturatingSub(FileLength(s), HEADER_SIZE + U16_MAX)

\* find_and_parse up to the loop: the length check and the first `pos`.
find_and_parse_start(s) ==
    IF FileLength(s) < HEADER_SIZE
    THEN [done |-> TRUE, result |-> InvalidArchive("Invalid zip header"),
          pos |-> 0, cursor |-> FileLength(s)]
    ELSE [done |-> FALSE, result |-> NoResult,
          pos |-> FileLength(s) - HEADER_SIZE, cursor |-> FileLength(s)]

NotFound == InvalidArchive("Could not find central directory end")

\* One test of the loop condition and, when it holds, one pass of the body.
find_and_parse_step(s, p, cur) ==
    IF ~(p >= SearchUpperBound(s))
    THEN [done |-> TRUE, result |-> NotFound, pos |-> p, cursor |-> cur]
    ELSE IF ~CanRead(s, p, 4)
    THEN [done |-> TRUE, result |-> IoError, pos |-> p, cursor |-> Len(s)]
    ELSE IF U32At(s, p) = CENTRAL_DIRECTORY_END_SIGNATURE
    THEN LET cde_start_pos == p
             r == CentralDirectoryEnd_parse(s, p) IN
         [done |-> TRUE,
          result |-> IF r.kind = "Ok" THEN Ok(r.cde, cde_start_pos) ELSE r,
          pos |-> p, cursor |-> ParseEnd(s, p)]
    ELSE IF p = 0
    THEN [done |-> TRUE, result |-> NotFound, pos |-> p, cursor |-> p + 4]
    ELSE [done |-> FALSE, result |-> NoResult, pos |-> p - 1, cursor |-> p + 4]

find_and_parse_async_start(s) == find_and_parse_start(s)

find_and_parse_async_step(s, p, cur) ==
    IF ~(p >= SearchUpperBound(s))
    THEN [done |-> TRUE, result |-> NotFound, pos |-> p, cursor |-> cur]
    ELSE IF ~CanRead(s, p, 4)
    THEN [done |-> TRUE, result |-> Panic, pos |-> p, cursor |-> Len(s)]
    ELSE IF U32At(s, p) = CENTRAL_DIRECTORY_END_SIGNATURE
            /\ ~CanRead(s, p + 4 + BYTES_BETWEEN_MAGIC_AND_COMMENT_SIZE, 2)
    THEN [done |-> TRUE, result |-> IoError, pos |-> p, cursor |-> Len(s)]
    ELSE IF U32At(s, p) = CENTRAL_DIRECTORY_END_SIGNATURE
            /\ FileLength(s) - p - HEADER_SIZE
                 = U16At(s, p + 4 + BYTES_BETWEEN_MAGIC_AND_COMMENT_SIZE)
    THEN LET cde_start_pos == p
             r == CentralDirectoryEnd_parse_async(s, p) IN
         [done |-> TRUE,
          result |-> IF r.kind = "Ok" THEN Ok(r.cde, cde_start_pos) ELSE r,
          pos |-> p, cursor |-> ParseEnd(s, p)]
    ELSE LET after == IF U32At(s, p) = CENTRAL_DIRECTORY_END_SIGNATURE
                      THEN p + HEADER_SIZE ELSE p + 4 IN
         IF p = 0
         THEN [done |-> TRUE, result |-> NotFound, pos |-> p, cursor |-> after]
         ELSE [done |-> FALSE, result |-> NoResult, pos |-> p - 1, cursor |-> after]

(***************************************************************************)
(* The streams find_and_parse and find_and_parse_async are run on: a       *)
(* prefix, a written record (whole, or with its last byte missing, or      *)
(* absent) and trailing bytes.  A record's comment may hold the EOCD magic *)
(* followed by what reads as a record header.                              *)
(***************************************************************************)
MaxEmbed == 1     \* an embedded header declares, and is followed by, 0..MaxEmbed bytes

\* Comment text that reads as an EOCD header declaring L comment bytes, then t bytes.
Embedded(L, t) ==
    LE32(CENTRAL_DIRECTORY_END_SIGNATURE)
        \o Zeros(BYTES_BETWEEN_MAGIC_AND_COMMENT_SIZE) \o LE16(L) \o Zeros(t)

EocdComments ==
    {<<>>, <<65>>, LE32(CENTRAL_DIRECTORY_END_SIGNATURE)}
        \cup {Embedded(L, t) : L \in 0..MaxEmbed, t \in 0..MaxEmbed}

EocdRecords ==
    {[disk_number |-> 0, disk_with_central_directory |-> 0,
      number_of_files_on_this_disk |-> n, number_of_files |-> n,
      central_directory_size |-> 46 * n, central_directory_offset |-> 30 * n,
      zip_file_comment |-> c] : n \in {0, 2}, c \in EocdComments}

EocdPrefixes == {<<>>, <<80, 75>>, LE32(CENTRAL_DIRECTORY_END_SIGNATURE)}

EocdStreams ==
    {pre \o SubSeq(CentralDirectoryEnd_write(r), 1, Len(CentralDirectoryEnd_write(r)) - cut)
         \o trail :
        pre \in EocdPrefixes, r \in EocdRecords, cut \in {0, 1}, trail \in {<<>>, <<0>>}}
      \cup {pre \o trail : pre \in EocdPrefixes, trail \in {<<>>, <<0>>, Zeros(HEADER_SIZE)}}

EocdIdle ==
    /\ stream = <<>>
    /\ pc = "idle" /\ pos = 0 /\ cursor = 0 /\ result = NoResult
    /\ a_pc = "idle" /\ a_pos = 0 /\ a_cursor = 0 /\ a_result = NoResult

EocdInit ==
    /\ stream \in EocdStreams
    /\ pc = "start" /\ pos = 0 /\ cursor = 0 /\ result = NoResult
    /\ a_pc = "start" /\ a_pos = 0 /\ a_cursor = 0 /\ a_result = NoResult

FindStart ==
    /\ pc = "start"
    /\ LET r == find_and_parse_start(stream) IN
          /\ pc' = IF r.done THEN "done" ELSE "scan"
          /\ pos' = r.pos
          /\ cursor' = r.cursor
          /\ result' = r.result
    /\ UNCHANGED <<stream, a_pc, a_pos, a_cursor, a_result>>
    /\ UNCHANGED <<crcVars, rtVars, zip64Vars>>

FindStep ==
    /\ pc = "scan"
    /\ LET r == find_and_parse_step(stream, pos, cursor) IN
          /\ pc' = IF r.done THEN "done" ELSE "scan"
          /\ pos' = r.pos
          /\ cursor' = r.cursor
          /\ result' = r.result
    /\ UNCHANGED <<stream, a_pc, a_pos, a_cursor, a_result>>
    /\ UNCHANGED <<crcVars, rtVars, zip64Vars>>

AsyncFindStart ==
    /\ a_pc = "start"
    /\ LET r == find_and_parse_async_start(stream) IN
          /\ a_pc' = IF r.done THEN "done" ELSE "scan"
          /\ a_pos' = r.pos
          /\ a_cursor' = r.cursor
          /\ a_result' = r.result
    /\ UNCHANGED <<stream, pc, pos, cursor, result>>
    /\ UNCHANGED <<crcVars, rtVars, zip64Vars>>

AsyncFindStep ==
    /\ a_pc = "scan"
    /\ LET r == find_and_parse_async_step(stream, a_pos, a_cursor) IN
          /\ a_pc' = IF r.done THEN "done" ELSE "scan"
          /\ a_pos' = r.pos
          /\ a_cursor' = r.cursor
          /\ a_result' = r.result
    /\ UNCHANGED <<stream, pc, pos, cursor, result>>
    /\ UNCHANGED <<crcVars, rtVars, zip64Vars>>

(***************************************************************************)
(* write then parse, on records with short comments and on the records     *)
(* with the longest comment the length field can declare and one byte more *)
(***************************************************************************)
MaxCommentLen == 2

RECURSIVE SeqsUpTo(_, _)
SeqsUpTo(S, n) ==
    IF n = 0 THEN {<<>>}
    ELSE SeqsUpTo(S, n - 1) \cup {Append(q, x) : q \in SeqsUpTo(S, n - 1), x \in S}

RtRecords ==
    [disk_number : {0, 32767},
     disk_with_central_directory : {0, 1},
     number_of_files_on_this_disk : {0, 258},
     number_of_files : {0, 772},
     central_directory_size : {0, 2139062143},
     central_directory_offset : {0, 16909060},
     zip_file_comment : SeqsUpTo({0, 80}, MaxCommentLen)]
      \cup {[disk_number |-> 1, disk_with_central_directory |-> 2,
              number_of_files_on_this_disk |-> 3, number_of_files |-> 4,
              central_directory_size |-> 5, central_directory_offset |-> 6,
              zip_file_comment |-> Zeros(n)] : n \in {U16_MAX, U16_MAX + 1}}

RtIdle == cde = NoCde /\ writer = <<>> /\ w_pc = "idle" /\ parsed = NoResult

RtInit == cde \in RtRecords /\ writer = <<>> /\ w_pc = "new" /\ parsed = NoResult

Write ==
    /\ w_pc = "new"
    /\ writer' = writer \o CentralDirectoryEnd_write(cde)
    /\ w_pc' = "written"
    /\ UNCHANGED <<cde, parsed>>
    /\ UNCHANGED <<crcVars, eocdVars, zip64Vars>>

Parse ==
    /\ w_pc = "written"
    /\ parsed' = CentralDirectoryEnd_parse(writer, 0)
    /\ w_pc' = "parsed"
    /\ UNCHANGED <<cde, writer>>
    /\ UNCHANGED <<crcVars, eocdVars, zip64Vars>>

(***************************************************************************)
(* Zip64CentralDirectoryEnd                                                *)
(***************************************************************************)
ZIP64_RECORD_BYTES == 56    \* magic, record size and the eight fields

U64(n) == [lo |-> n, hi |-> 0]

NoZip64 == [version_made_by |-> 0, version_needed_to_extract |-> 0,
            disk_number |-> 0, disk_with_central_directory |-> 0,
            number_of_files_on_this_disk |-> U64(0), number_of_files |-> U64(0),
            central_directory_size |-> U64(0), central_directory_offset |-> U64(0)]

Ok64(r, off) == [kind |-> "Ok", msg |-> "", rec |-> r, archive_offset |-> off]
NotFound64 ==
    [kind |-> "InvalidArchive", msg |-> "Could not find ZIP64 central directory end",
     rec |-> NoZip64, archive_offset |-> -1]
IoError64 == [kind |-> "Io", msg |-> "UnexpectedEof", rec |-> NoZip64, archive_offset |-> -1]
NoResult64 == [kind |-> "None", msg |-> "", rec |-> NoZip64, archive_offset |-> -1]

\* Faulty variants of the scan: archive_offset is the absolute position; the loop
\* tests one position past search_upper_bound.
Zip64_find_and_parse_step_abs_offset(s, nominal, upper, p) ==
    IF ~(p <= upper)
    THEN [done |-> TRUE, result |-> NotFound64, pos |-> p]
    ELSE IF ~CanRead(s, p, 4)
    THEN [done |-> TRUE, result |-> IoError64, pos |-> p]
    ELSE IF U32At(s, p) = ZIP64_CENTRAL_DIRECTORY_END_SIGNATURE
    THEN LET archive_offset == p IN
         IF ~CanRead(s, p, ZIP64_RECORD_BYTES)
         THEN [done |-> TRUE, result |-> IoError64, pos |-> p]
         ELSE [done |-> TRUE, pos |-> p,
               result |->
                   Ok64([version_made_by              |-> U16At(s, p + 12),
                         version_needed_to_extract    |-> U16At(s, p + 14),
                         disk_number                  |-> U32At(s, p + 16),
                         disk_with_central_directory  |-> U32At(s, p + 20),
                         number_of_files_on_this_disk |-> U64At(s, p + 24),
                         number_of_files              |-> U64At(s, p + 32),
                         central_directory_size       |-> U64At(s, p + 40),
                         central_directory_offset     |-> U64At(s, p + 48)],
                        archive_offset)]
    ELSE [done |-> FALSE, result |-> NoResult64, pos |-> p + 1]

Zip64_find_and_parse_step_past_bound(s, nominal, upper, p) ==
    IF ~(p <= upper + 1)
    THEN [done |-> TRUE, result |-> NotFound64, pos |-> p]
    ELSE IF ~CanRead(s, p, 4)
    THEN [done |-> TRUE, result |-> IoError64, pos |-> p]
    ELSE IF U32At(s, p) = ZIP64_CENTRAL_DIRECTORY_END_SIGNATURE
    THEN LET archive_offset == p - nominal IN
         IF ~CanRead(s, p, ZIP64_RECORD_BYTES)
         THEN [done |-> TRUE, result |-> IoError64, pos |-> p]
         ELSE [done |-> TRUE, pos |-> p,
               result |->
                   Ok64([version_made_by              |-> U16At(s, p + 12),
                         version_needed_to_extract    |-> U16At(s, p + 14),
                         disk_number                  |-> U32At(s, p + 16),
                         disk_with_central_directory  |-> U32At(s, p + 20),
                         number_of_files_on_this_disk |-> U64At(s, p + 24),
                         number_of_files              |-> U64At(s, p + 32),
                         central_directory_size       |-> U64At(s, p + 40),
                         central_directory_offset     |-> U64At(s, p + 48)],
                        archive_offset)]
    ELSE [done |-> FALSE, result |-> NoResult64, pos |-> p + 1]

\* One test of the loop condition and, when it holds, one pass of the body.
Zip64_find_and_parse_step(s, nominal, upper, p) ==
    IF ~(p <= upper)
    THEN [done |-> TRUE, result |-> NotFound64, pos |-> p]
    ELSE IF ~CanRead(s, p, 4)
    THEN [done |-> TRUE, result |-> IoError64, pos |-> p]
    ELSE IF U32At(s, p) = ZIP64_CENTRAL_DIRECTORY_END_SIGNATURE
    THEN LET archive_offset == p - nominal IN
         IF ~CanRead(s, p, ZIP64_RECORD_BYTES)
         THEN [done |-> TRUE, result |-> IoError64, pos |-> p]
         ELSE [done |-> TRUE, pos |-> p,
               result |->
                   Ok64([version_made_by              |-> U16At(s, p + 12),
                         version_needed_to_extract    |-> U16At(s, p + 14),
                         disk_number                  |-> U32At(s, p + 16),
                         disk_with_central_directory  |-> U32At(s, p + 20),
                         number_of_files_on_this_disk |-> U64At(s, p + 24),
                         number_of_files              |-> U64At(s, p + 32),
                         central_directory_size       |-> U64At(s, p + 40),
                         central_directory_offset     |-> U64At(s, p + 48)],
                        archive_offset)]
    ELSE [done |-> FALSE, result |-> NoResult64, pos |-> p + 1]

\* The bytes of a zip64 EOCD record, in the order find_and_parse reads them.
Zip64Bytes(r) ==
    LE32(ZIP64_CENTRAL_DIRECTORY_END_SIGNATURE)
        \o LE64(U64(ZIP64_RECORD_BYTES - 12))
        \o LE16(r.version_made_by)
        \o LE16(r.version_needed_to_extract)
        \o LE32(r.disk_number)
        \o LE32(r.disk_with_central_directory)
        \o LE64(r.number_of_files_on_this_disk)
        \o LE64(r.number_of_files)
        \o LE64(r.central_directory_size)
        \o LE64(r.central_directory_offset)

MaxNominal == 5    \* nominal_offset ranges over 0..MaxNominal

Zip64Records ==
    {[version_made_by |-> 45, version_needed_to_extract |-> 46,
      disk_number |-> 1, disk_with_central_directory |-> 2,
      number_of_files_on_this_disk |-> U64(3), number_of_files |-> U64(4),
      central_directory_size |-> U64(5), central_directory_offset |-> U64(6)],
     [version_made_by |-> 258, version_needed_to_extract |-> 772,
      disk_number |-> 16909060, disk_with_central_directory |-> 84281096,
      number_of_files_on_this_disk |-> [lo |-> 2139062143, hi |-> 1],
      number_of_files |-> [lo |-> 0, hi |-> 2139062143],
      central_directory_size |-> [lo |-> 16909060, hi |-> 84281096],
      central_directory_offset |-> [lo |-> 101075792, hi |-> 7]]}

\* Bytes before the record: none, junk, parts of the magic, and the magic itself.
Zip64Prefixes ==
    {<<>>, <<0>>, <<80, 75>>, <<80, 75, 6>>, <<0, 80, 75, 6>>,
     LE32(ZIP64_CENTRAL_DIRECTORY_END_SIGNATURE)}

Zip64Tails == {<<>>, <<0, 0>>}

NoZip64Rec == [at |-> -1, rec |-> NoZip64]

Zip64Idle ==
    /\ z_stream = <<>> /\ z_rec = NoZip64Rec
    /\ nominal_offset = 0 /\ search_upper_bound = 0
    /\ z_pc = "idle" /\ z_pos = 0 /\ z_result = NoResult64

Zip64Init ==
    /\ \E pre \in Zip64Prefixes, tl \in Zip64Tails :
          \/ \E r \in Zip64Records :
                /\ z_stream = pre \o Zip64Bytes(r) \o tl
                /\ z_rec = [at |-> Len(pre), rec |-> r]
          \/ /\ z_stream = pre \o tl
             /\ z_rec = NoZip64Rec
    /\ nominal_offset \in 0..MaxNominal
    /\ search_upper_bound \in
          (0..(MaxNominal + 1))
              \cup {n \in (Len(z_stream) - 5)..(Len(z_stream) + 1) : n >= 0}
    /\ z_pc = "scan"
    /\ z_pos = nominal_offset
    /\ z_result = NoResult64

Zip64Step ==
    /\ z_pc = "scan"
    /\ LET r == Zip64_find_and_parse_step(z_stream, nominal_offset,
                                          search_upper_bound, z_pos) IN
          /\ z_pc' = IF r.done THEN "done" ELSE "scan"
          /\ z_pos' = r.pos
          /\ z_result' = r.result
    /\ UNCHANGED <<z_stream, z_rec, nominal_offset, search_upper_bound>>
    /\ UNCHANGED <<crcVars, eocdVars, rtVars>>

(***************************************************************************)
(* Specifications, one per component.                                      *)
(***************************************************************************)
Init == CrcInit /\ EocdIdle /\ RtIdle /\ Zip64Idle

Next == Read \/ PollPending \/ PollReady

Spec == Init /\ [][Next]_vars

EocdSpecInit == CrcIdle /\ EocdInit /\ RtIdle /\ Zip64Idle

EocdNext == FindStart \/ FindStep \/ AsyncFindStart \/ AsyncFindStep

SpecEocd == EocdSpecInit /\ [][EocdNext]_vars

RtSpecInit == CrcIdle /\ EocdIdle /\ RtInit /\ Zip64Idle

RtNext == Write \/ Parse

SpecRoundTrip == RtSpecInit /\ [][RtNext]_vars

Zip64SpecInit == CrcIdle /\ EocdIdle /\ RtIdle /\ Zip64Init

Zip64Next == Zip64Step

SpecZip64 == Zip64SpecInit /\ [][Zip64Next]_vars

(***************************************************************************)
(* Properties of Crc32Reader (under Spec).                                 *)
(***************************************************************************)
\* The inner position and the finalized checksum a reader had before call i.
PosBefore(rs, i) == IF i = 1 THEN 0 ELSE rs[i - 1].pos

CrcBefore(rs, i) == IF i = 1 THEN HasherNew ELSE rs[i - 1].crc

InnerEof == [kind |-> "Ok", n |-> 0]

\* C2: read returns the "Invalid checksum" error exactly when the buffer is
\* nonempty, the inner source returned 0 bytes and the CRC32 of the bytes delivered
\* so far differs from the expected value; a read that delivers n > 0 bytes never
\* fails, and a nonempty read at inner end-of-stream with a matching CRC32 is Ok(0).
C2_ChecksumErrorIff ==
    \A i \in 1..Len(results) :
        LET mismatch == Crc32Of(SubSeq(data, 1, PosBefore(results, i))) # check
            eof == reqs[i].n > 0 /\ results[i].inner = InnerEof
        IN  /\ (results[i].ret = "InvalidChecksum") <=> (eof /\ mismatch)
            /\ results[i].n > 0 => results[i].ret = "Ok"
            /\ (eof /\ ~mismatch) => (results[i].ret = "Ok" /\ results[i].n = 0)

\* C2's case: bytes were delivered, then a nonempty read at end-of-stream failed
\* the validation.
C2_Witness ==
    \E i \in 2..Len(results) :
        /\ results[i].ret = "InvalidChecksum"
        /\ results[i - 1].n > 0
        /\ reqs[i].n > 0

\* C3 as stated: every zero-length read returns Ok(0), consumes nothing, leaves the
\* accumulator unchanged and never returns a checksum error.
C3_ZeroReadAlwaysOk ==
    \A i \in 1..Len(results) :
        reqs[i].n = 0 =>
            /\ results[i].ret = "Ok" /\ results[i].n = 0
            /\ results[i].pos = PosBefore(results, i)
            /\ results[i].crc = CrcBefore(results, i)

\* C3 amended: a zero-length read never returns a checksum error, consumes nothing
\* and leaves the accumulator unchanged; it returns Ok(0) when the inner read of the
\* empty buffer succeeds, and the inner source's error when that read fails.
C3_ZeroReadFrame ==
    \A i \in 1..Len(results) :
        reqs[i].n = 0 =>
            /\ results[i].ret # "InvalidChecksum"
            /\ results[i].n = 0
            /\ results[i].pos = PosBefore(results, i)
            /\ results[i].crc = CrcBefore(results, i)
            /\ results[i].inner.kind = "Ok" => results[i].ret = "Ok"
            /\ results[i].inner.kind = "Err" => results[i].ret = "IoError"

\* C3's case: a zero-length read at inner end-of-stream, after data was delivered,
\* while the accumulated CRC32 differs from the expected value.
C3_Witness ==
    \E i \in 2..Len(results) :
        /\ reqs[i].n = 0
        /\ results[i].ret = "Ok"
        /\ PosBefore(results, i) = Len(data)
        /\ Len(data) > 0
        /\ CrcBefore(results, i) # check

\* C4: once a nonempty read has returned Ok(0), every later nonempty read for which
\* the inner source again returns 0 bytes returns Ok(0) too.
C4_EofIsStable ==
    \A i \in 1..Len(results) : \A j \in (i + 1)..Len(results) :
        (/\ reqs[i].n > 0 /\ results[i].ret = "Ok" /\ results[i].n = 0
         /\ reqs[j].n > 0 /\ results[j].inner = InnerEof)
            => (results[j].ret = "Ok" /\ results[j].n = 0)

\* C4's case: "1234" against 0x9be3e0a3 read to its end, Ok(0), and read again.
C4_Witness ==
    /\ data = Str1234 /\ check = Crc1234
    /\ \E i \in 2..Len(results) : \E j \in (i + 1)..Len(results) :
          /\ results[i - 1].pos = Len(data)
          /\ reqs[i].n > 0 /\ results[i].ret = "Ok" /\ results[i].n = 0
          /\ reqs[j].n > 0 /\ results[j].ret = "Ok" /\ results[j].n = 0

\* C10: the resolved results of poll_read equal those of the blocking read, request
\* by request (value returned, bytes consumed, accumulator), and a poll the inner
\* source answers with Pending leaves the accumulator and the inner position as the
\* last resolved call left them.
C10_PollReadEquivalent ==
    /\ \A i \in 1..Len(a_results) : a_results[i] = results[i]
    /\ Len(a_results) = Len(results) => (a_hasher = hasher /\ a_inner_pos = inner_pos)
    /\ a_pending > 0 =>
          /\ a_hasher = CrcBefore(a_results, Len(a_results) + 1)
          /\ a_inner_pos = PosBefore(a_results, Len(a_results) + 1)

\* C10's case: the inner source has answered Pending to a nonempty request at
\* end-of-stream whose validation, once it resolves, fails.
C10_Witness ==
    /\ a_pending > 0
    /\ Len(a_results) >= 1
    /\ Last(a_results).n > 0
    /\ reqs[Len(a_results) + 1].n > 0
    /\ ~reqs[Len(a_results) + 1].err
    /\ a_inner_pos = Len(data)
    /\ a_hasher # check

(***************************************************************************)
(* Properties of CentralDirectoryEnd::find_and_parse (under SpecEocd).     *)
(***************************************************************************)
\* The positions the scan may test: [max(0, file_length - 22 - 65535), file_length - 22].
Window(s) ==
    (IF Len(s) - 22 - 65535 > 0 THEN Len(s) - 22 - 65535 ELSE 0)..(Len(s) - 22)

\* A candidate holds the EOCD magic; it is verified when the comment length it
\* declares is the number of bytes between its fixed part and end-of-file.
Candidate(s, p) == p \in Window(s) /\ U32At(s, p) = 101010256

Verified(s, p) == Candidate(s, p) /\ U16At(s, p + 20) = Len(s) - p - 22

\* The true record starts at the verified candidate nearest end-of-file.
IsTrueStart(s, t) == Verified(s, t) /\ \A q \in Window(s) : q > t => ~Verified(s, q)

\* The stream's tail holds a true record whose comment holds the magic at a
\* candidate position that is not verified.
EmbeddedFalsePositive(s) ==
    \E t \in Window(s) :
        IsTrueStart(s, t) /\ \E p \in Window(s) : p >= t + 22 /\ Candidate(s, p)

\* C1 as stated: on a stream whose true record's comment holds the EOCD magic at a
\* candidate position with an inconsistent declared comment length, the blocking
\* find_and_parse returns the true record and the true record's start offset.
C1_SkipsFalsePositive ==
    (pc = "done" /\ EmbeddedFalsePositive(stream)) =>
        \E t \in Window(stream) :
            /\ IsTrueStart(stream, t)
            /\ result.kind = "Ok"
            /\ result.start = t
            /\ result.cde = CentralDirectoryEnd_parse(stream, t).cde

\* C7 as stated: on a stream with no verified candidate in the search window the
\* blocking find_and_parse returns an archive-structure error, never a record or
\* another kind of error.
C7_NoVerifiedCandidateIsInvalidArchive ==
    (pc = "done" /\ \A p \in Window(stream) : ~Verified(stream, p)) =>
        result.kind = "InvalidArchive"

\* C9 as stated: on every stream on which no read fails in either form,
\* find_and_parse and find_and_parse_async return the same outcome: the same record
\* and start offset, or both an archive-structure error.
C9_BlockingEqualsAsync ==
    (pc = "done" /\ a_pc = "done" /\ result.kind # "Io" /\ a_result.kind # "Io") =>
        \/ result.kind = "Ok" /\ a_result.kind = "Ok"
              /\ result.cde = a_result.cde /\ result.start = a_result.start
        \/ result.kind = "InvalidArchive" /\ a_result.kind = "InvalidArchive"

(***************************************************************************)
(* Properties of write then parse (under SpecRoundTrip).                   *)
(***************************************************************************)
\* C6: for a record whose comment is at most 65535 bytes long, write emits exactly
\* 22 + comment length bytes, and parse on those bytes succeeds and returns a record
\* equal to the original in the six fixed fields and the comment.
C6_RoundTrip ==
    Len(cde.zip_file_comment) <= 65535 =>
        /\ w_pc \in {"written", "parsed"} =>
              Len(writer) = 22 + Len(cde.zip_file_comment)
        /\ w_pc = "parsed" => (parsed.kind = "Ok" /\ parsed.cde = cde)

\* C6's case: a record with nonzero fields and the longest comment, written and parsed.
C6_Witness ==
    /\ w_pc = "parsed"
    /\ Len(cde.zip_file_comment) = 65535
    /\ cde.disk_number # 0 /\ cde.number_of_files # 0
    /\ cde.central_directory_size # 0 /\ cde.central_directory_offset # 0
    /\ parsed.kind = "Ok"

(***************************************************************************)
(* Properties of Zip64CentralDirectoryEnd::find_and_parse (under SpecZip64)*)
(***************************************************************************)
\* Position p holds the zip64 EOCD magic.
HoldsZip64Magic(s, p) == p + 4 <= Len(s) /\ U32At(s, p) = 101075792

\* The record starts at nominal_offset + N, N >= 0, within search_upper_bound, and
\* no position before it, from nominal_offset on, holds the magic.
RecordAhead ==
    /\ z_rec.at >= nominal_offset
    /\ z_rec.at <= search_upper_bound
    /\ \A q \in nominal_offset..(z_rec.at - 1) : ~HoldsZip64Magic(z_stream, q)

\* C5: when the record starts N >= 0 bytes after nominal_offset, within
\* search_upper_bound and with no earlier magic from nominal_offset on, the call
\* succeeds with archive_offset = N and the eight fields of that record.
C5_ArchiveOffsetIsN ==
    (z_pc = "done" /\ RecordAhead) =>
        z_result = Ok64(z_rec.rec, z_rec.at - nominal_offset)

\* C5's case: the record found N >= 2 bytes after a nonzero nominal offset.
C5_Witness ==
    /\ z_pc = "done" /\ RecordAhead
    /\ nominal_offset > 0
    /\ z_rec.at - nominal_offset >= 2
    /\ z_result.kind = "Ok"
    /\ z_result.rec.number_of_files.hi # 0

NoMagicInRange ==
    \A q \in nominal_offset..search_upper_bound : ~HoldsZip64Magic(z_stream, q)

\* C8 as stated: whenever no position in [nominal_offset, search_upper_bound] holds
\* the magic, the call returns the archive-structure error "Could not find ZIP64
\* central directory end", also when search_upper_bound is at or beyond the last 4
\* bytes of the stream.
C8_NoMagicIsInvalidArchive ==
    (z_pc = "done" /\ NoMagicInRange) => z_result = NotFound64

\* C8 amended: with no magic in [nominal_offset, search_upper_bound], the call
\* returns that archive-structure error when nominal_offset > search_upper_bound or
\* when 4 bytes can be read at every position of the range (search_upper_bound + 4
\* <= stream length); otherwise the read at the first position with fewer than 4
\* bytes left fails and the call returns that I/O error.
C8_NoMagicInReadableRange ==
    (z_pc = "done" /\ NoMagicInRange) =>
        IF nominal_offset > search_upper_bound
               \/ search_upper_bound + 4 <= Len(z_stream)
        THEN z_result = NotFound64
        ELSE z_result = IoError64

\* C8's case: a scan over at least three positions, none holding the magic, that
\* ends past search_upper_bound with the archive-structure error.
C8_Witness ==
    /\ z_pc = "done" /\ NoMagicInRange
    /\ search_upper_bound >= nominal_offset + 2
    /\ z_pos = search_upper_bound + 1
    /\ z_result = NotFound64

====
